---- MODULE Spec2Model ----
(***************************************************************************)
(* Stream-resolution and frame-extraction pipeline of                      *)
(* realtime-urban-visual-qa (src/environment_qa.py, src/temporal_rag_qa.py)*)
(*                                                                         *)
(* The module holds several specifications over one set of variables:      *)
(*   SpecDecoder   concurrent invocations of extract_frame_from_ts         *)
(*   SpecThumb     one invocation of capture_youtube_thumbnail             *)
(*   SpecPlaylist  one invocation of get_latest_ts_segment                 *)
(*   SpecBrowser   one invocation of extract_hls_url_with_browser          *)
(*   SpecPipeline  the caller's loop over the candidate pages, with        *)
(*                 capture_camera_image and extract_hls_url for each       *)
(*   SpecStatic    one invocation of extract_hls_url on a known response   *)
(*   SpecSave      concurrent invocations saving their image under         *)
(*                 captured_images/                                        *)
(*   SpecRag       successive answer_question_with_rag calls on one        *)
(*                 history store (src/temporal_rag_qa.py)                  *)
(* Each specification freezes the variables of the other components.       *)
(***************************************************************************)
EXTENDS Integers, Sequences, FiniteSets, TLC

(***************************************************************************)
(* Bounds of the model (not program constants).                            *)
(***************************************************************************)
\* number of Frame Decoder invocations that may run concurrently
NumDecoders == 2
\* last clock second the model reaches (int(time.time()) values 0..MaxClock)
MaxClock == 2
\* most variants a master manifest lists
MaxVariants == 3
\* most segments a media manifest lists
MaxSegments == 3
\* most network requests the page issues while the browser is open
MaxRequests == 2
\* number of capture_camera_image invocations that may save an image concurrently
NumSavers == 2
\* number of answer_question_with_rag calls the model follows
MaxCalls == 2

(***************************************************************************)
(* Program constants.                                                      *)
(***************************************************************************)
\* response.status_code == 200
HttpOk == 200
\* len(response.content) > 1000  (placeholder images are smaller)
MinThumbBytes == 1000
\* for attempt in range(2)
MaxAttempts == 2
\* return all_links[:5]
SearchLimit == 5
\* for i, camera_url in enumerate(camera_urls[:3], 1)
TryLimit == 3
\* timedelta(days=1), in seconds
DaySeconds == 86400
\* timedelta(weeks=1), in seconds
WeekSeconds == 604800
\* time_window=60 (minutes), in seconds
WindowSeconds == 3600

VARIABLES
    \* ---- Frame Decoder (extract_frame_from_ts), one slot per invocation
    clock,      \* int(time.time()): the wall clock in whole seconds
    files,      \* /tmp namespace: path token -> what the file holds (NoFile if absent)
    dpc,        \* position of each invocation in extract_frame_from_ts
    dresp,      \* the HTTP response each invocation received
    dpath,      \* temp_ts of each invocation (NoPath before it is named)
    dcap,       \* what cv2.VideoCapture opened for each invocation
    dret,       \* ret of cap.read()
    dresult,    \* the value each invocation returned
    dbefore,    \* number of temporary segment files when the invocation started
    \* ---- Platform Thumbnail Fallback (capture_youtube_thumbnail)
    tpc,        \* "idle", "fetch" (inside the for loop) or "done"
    tidx,       \* index into thumbnail_urls of the next request
    tlog,       \* the requests issued so far, with what each one met
    tresult,    \* the returned value: the endpoint whose image was saved, or "None"
    \* ---- Playlist Resolver (get_latest_ts_segment)
    lpc,        \* position inside the retry loop
    attempt,    \* the loop variable of "for attempt in range(2)"
    playlist,   \* the manifest object currently held (NoManifest before a load)
    lurl,       \* the URL the held manifest was loaded from
    best,       \* index of best_playlist in playlist.playlists (0 before selection)
    llog,       \* what the invocation did so far: sleeps and loads, in order
    lresult,    \* the returned value: NoneUrl or the segment URL
    lfails,     \* why each attempt that ended without a segment did so, in order
    \* ---- Dynamic Renderer (extract_hls_url_with_browser)
    bpc,        \* position inside extract_hls_url_with_browser
    driver,     \* the Playwright driver of "with sync_playwright() as p"
    browser,    \* the Chromium process: "none", "open" or "closed"
    observer,   \* TRUE once page.on('request', handle_request) has run
    observed,   \* every request the page issued, in order (kinds)
    captured_m3u8,      \* the list captured_m3u8 (positions in observed)
    captured_youtube,   \* the list captured_youtube (positions in observed)
    html,       \* what page.content() returned
    raised,     \* the step whose exception is propagating or was handled
    bresult,    \* the returned value
    \* ---- the caller's loop, capture_camera_image and extract_hls_url
    caller,     \* "answer_question" or "answer_question_with_rag"
    ncand,      \* len(camera_urls), the list search_earthcam returned
    cand,       \* position in camera_urls of the candidate being tried
    ppc,        \* position in the loop / capture_camera_image / extract_hls_url
    fetched,    \* how the static fetch of the candidate page went
    rest,       \* what the page-text rules yield for the fetched page
    hls_url,    \* the descriptor extract_hls_url returned
    tiers,      \* the tiers invoked for this candidate so far, with their outcome
    image_path, \* what capture_camera_image returned for this candidate
    tries,      \* the candidates tried so far, with the outcome of each
    outcome,    \* what the caller concluded for the camera
    \* ---- Static Page Resolver (extract_hls_url), one invocation on a known page
    spc,        \* position inside extract_hls_url
    sfetch,     \* how requests.get went: "ok" or "raised"
    page,       \* the response requests.get returned
    sdesc,      \* the value extract_hls_url returned
    scalls,     \* the browser sessions opened so far: call site and return value
    scount,     \* which call on this response is running: the first or the second
    sprev,      \* what the first call returned and the browser sessions it opened
    \* ---- saving the image (capture_camera_image, capture_youtube_thumbnail)
    opc,        \* position of each invocation in the save step
    okind,      \* what each invocation saves: a decoded "frame" or a "thumbnail"
    oname,      \* filename of each invocation (NoName before it is formed)
    outfiles,   \* captured_images/: file name -> the invocation whose image it holds
    \* ---- history store and answer_question_with_rag (temporal_rag_qa.py)
    rag_on,     \* self.enable_rag
    rnow,       \* datetime.now(), in whole seconds
    rpc,        \* position inside answer_question_with_rag / add_record
    rcalls,     \* number of answer_question_with_rag calls started so far
    rcity,      \* city of the current call
    rtype,      \* comparison_type of the current call ("none": not a comparison)
    rimage,     \* current_image_path
    ranalysis,  \* current_analysis
    rtime,      \* current_time: the second and the position inside that second
    rvec,       \* the vector collection: entries with their id
    rsql,       \* the rows of camera_records, in insertion order
    rids,       \* the record ids add_record returned, in order
    rsteps,     \* what the current call did to the store, in order
    rhist,      \* historical_context
    ranswer     \* how the last call ended

decVars == <<clock, files, dpc, dresp, dpath, dcap, dret, dresult, dbefore>>
thumbVars == <<tpc, tidx, tlog, tresult>>
listVars == <<lpc, attempt, playlist, lurl, best, llog, lresult, lfails>>
browserVars == <<bpc, driver, browser, observer, observed, captured_m3u8,
                 captured_youtube, html, raised, bresult>>

pipeVars == <<caller, ncand, cand, ppc, fetched, rest, hls_url, tiers,
              image_path, tries, outcome>>

staticVars == <<spc, sfetch, page, sdesc, scalls, scount, sprev>>

saveVars == <<opc, okind, oname, outfiles>>

ragVars == <<rag_on, rnow, rpc, rcalls, rcity, rtype, rimage, ranalysis, rtime,
            rvec, rsql, rids, rsteps, rhist, ranswer>>

vars == <<decVars, thumbVars, listVars, browserVars, pipeVars, staticVars, saveVars, ragVars>>

\* the variables every action of one component leaves alone
notDec == <<thumbVars, listVars, browserVars, pipeVars, staticVars, saveVars, ragVars>>
notThumb == <<decVars, listVars, browserVars, pipeVars, staticVars, saveVars, ragVars>>
notList == <<decVars, thumbVars, browserVars, pipeVars, staticVars, saveVars, ragVars>>
notBrowser == <<decVars, thumbVars, listVars, pipeVars, staticVars, saveVars, ragVars>>
notPipe == <<decVars, thumbVars, listVars, browserVars, staticVars, saveVars, ragVars>>
notStatic == <<decVars, thumbVars, listVars, browserVars, pipeVars, saveVars, ragVars>>
notSave == <<decVars, thumbVars, listVars, browserVars, pipeVars, staticVars, ragVars>>
notRag == <<decVars, thumbVars, listVars, browserVars, pipeVars, staticVars, saveVars>>

(***************************************************************************)
(* Frame Decoder: EarthCamQA.extract_frame_from_ts                         *)
(***************************************************************************)
Decoders == 1..NumDecoders
Paths == 0..MaxClock
NoPath == -1
NoFile == [writer |-> 0, body |-> "absent"]
\* what a downloaded segment body can be: a decodable video, a container that
\* opens but whose first frame cannot be read, bytes no container opens, nothing
Bodies == {"video", "noframe", "corrupt", "empty"}
Statuses == {HttpOk, 404}
NoResp == [status |-> 0, body |-> "absent"]

\* temp_ts = f"/tmp/temp_segment_{int(time.time())}.ts": the path is the second
TempPath(i, now) == now

TempFileCount == Cardinality({p \in Paths : files[p] # NoFile})

\* cap.isOpened(): the container at the path can be opened
IsOpened(f) == f.body \in {"video", "noframe"}

DecReturn(i, r) ==
    /\ dpc' = [dpc EXCEPT ![i] = "done"]
    /\ dresult' = [dresult EXCEPT ![i] = r]

\* the call: nothing has happened yet
DecStart(i) ==
    /\ dpc[i] = "idle"
    /\ dpc' = [dpc EXCEPT ![i] = "get"]
    /\ dbefore' = [dbefore EXCEPT ![i] = TempFileCount]
    /\ UNCHANGED <<clock, files, dresp, dpath, dcap, dret, dresult>>
    /\ UNCHANGED notDec

\* requests.get(ts_url, timeout=20) raises: the bare except returns None
DecGetRaises(i) ==
    /\ dpc[i] = "get"
    /\ DecReturn(i, "None")
    /\ UNCHANGED <<clock, files, dresp, dpath, dcap, dret, dbefore>>
    /\ UNCHANGED notDec

\* requests.get returns; a status other than 200 returns None
DecGet(i) ==
    /\ dpc[i] = "get"
    /\ \E s \in Statuses, b \in Bodies :
        /\ dresp' = [dresp EXCEPT ![i] = [status |-> s, body |-> b]]
        /\ IF s = HttpOk
              THEN dpc' = [dpc EXCEPT ![i] = "write"] /\ UNCHANGED dresult
              ELSE DecReturn(i, "None")
    /\ UNCHANGED <<clock, files, dpath, dcap, dret, dbefore>>
    /\ UNCHANGED notDec

\* temp_ts is named from the clock and the body is written to it
DecWrite(i) ==
    /\ dpc[i] = "write"
    /\ dpath' = [dpath EXCEPT ![i] = TempPath(i, clock)]
    /\ files' = [files EXCEPT ![TempPath(i, clock)] =
                    [writer |-> i, body |-> dresp[i].body]]
    /\ dpc' = [dpc EXCEPT ![i] = "open"]
    /\ UNCHANGED <<clock, dresp, dcap, dret, dresult, dbefore>>
    /\ UNCHANGED notDec

\* cap = cv2.VideoCapture(temp_ts); if not cap.isOpened() the function falls
\* through to "return None" (no os.remove on that path)
DecOpen(i) ==
    /\ dpc[i] = "open"
    /\ IF IsOpened(files[dpath[i]])
          THEN /\ dcap' = [dcap EXCEPT ![i] = files[dpath[i]]]
               /\ dpc' = [dpc EXCEPT ![i] = "read"]
               /\ UNCHANGED dresult
          ELSE /\ DecReturn(i, "None")
               /\ UNCHANGED dcap
    /\ UNCHANGED <<clock, files, dresp, dpath, dret, dbefore>>
    /\ UNCHANGED notDec

\* ret, frame = cap.read(); cap.release()
DecRead(i) ==
    /\ dpc[i] = "read"
    /\ dret' = [dret EXCEPT ![i] = (dcap[i].body = "video")]
    /\ dpc' = [dpc EXCEPT ![i] = "remove"]
    /\ UNCHANGED <<clock, files, dresp, dpath, dcap, dresult, dbefore>>
    /\ UNCHANGED notDec

\* os.remove(temp_ts): raises FileNotFoundError when the path is gone (the
\* bare except then returns None); otherwise "if ret: return frame"
DecRemove(i) ==
    /\ dpc[i] = "remove"
    /\ IF files[dpath[i]] = NoFile
          THEN /\ DecReturn(i, "None")
               /\ UNCHANGED files
          ELSE /\ files' = [files EXCEPT ![dpath[i]] = NoFile]
               /\ DecReturn(i, IF dret[i] THEN "frame" ELSE "None")
    /\ UNCHANGED <<clock, dresp, dpath, dcap, dret, dbefore>>
    /\ UNCHANGED notDec

\* the wall clock advances
Tick ==
    /\ clock < MaxClock
    /\ clock' = clock + 1
    /\ UNCHANGED <<files, dpc, dresp, dpath, dcap, dret, dresult, dbefore>>
    /\ UNCHANGED notDec

DecInit ==
    /\ clock = 0
    /\ files = [p \in Paths |-> NoFile]
    /\ dpc = [i \in Decoders |-> "idle"]
    /\ dresp = [i \in Decoders |-> NoResp]
    /\ dpath = [i \in Decoders |-> NoPath]
    /\ dcap = [i \in Decoders |-> NoFile]
    /\ dret = [i \in Decoders |-> FALSE]
    /\ dresult = [i \in Decoders |-> "pending"]
    /\ dbefore = [i \in Decoders |-> 0]

(***************************************************************************)
(* Platform Thumbnail Fallback: EarthCamQA.capture_youtube_thumbnail       *)
(***************************************************************************)
\* thumbnail_urls, highest nominal resolution first
ThumbnailUrls == <<"maxres", "hq", "mq">>
\* body sizes a preview endpoint may answer with (bytes)
ThumbSizes == {50, 1000, 1001, 1500, 9000}
ThumbStatuses == {HttpOk, 404}
\* what one requests.get can meet
ThumbReplies ==
    {[raised |-> TRUE, status |-> 0, size |-> 0]} \cup
    {[raised |-> FALSE, status |-> s, size |-> n] : s \in ThumbStatuses, n \in ThumbSizes}

\* a variant of ThumbAccepts that forgets the placeholder-size test
ThumbAcceptsAnyBody(r) == r.status = HttpOk

\* response.status_code == 200 and len(response.content) > 1000
ThumbAccepts(r) == r.status = HttpOk /\ r.size > MinThumbBytes

\* "continue" / end of the loop body: the next url, or out of the loop to
\* "return None"
ThumbNext ==
    IF tidx < Len(ThumbnailUrls)
       THEN tidx' = tidx + 1 /\ UNCHANGED <<tpc, tresult>>
       ELSE tpc' = "done" /\ tresult' = "None" /\ UNCHANGED tidx

\* requests.get(url, timeout=10) raises: "except: continue"
ThumbFetchRaises ==
    /\ tpc = "fetch"
    /\ tlog' = Append(tlog, [url |-> ThumbnailUrls[tidx],
                             reply |-> [raised |-> TRUE, status |-> 0, size |-> 0]])
    /\ ThumbNext
    /\ UNCHANGED notThumb

\* requests.get returns: the image is saved and its name returned when the
\* reply is accepted, otherwise the loop goes on
ThumbFetch ==
    /\ tpc = "fetch"
    /\ \E r \in {x \in ThumbReplies : ~x.raised} :
        /\ tlog' = Append(tlog, [url |-> ThumbnailUrls[tidx], reply |-> r])
        /\ IF ThumbAccepts(r)
              THEN /\ tpc' = "done"
                   /\ tresult' = ThumbnailUrls[tidx]
                   /\ UNCHANGED tidx
              ELSE ThumbNext
    /\ UNCHANGED notThumb

ThumbIdle ==
    /\ tpc = "idle"
    /\ tidx = 1
    /\ tlog = <<>>
    /\ tresult = "pending"

\* the state on entry to the for loop
ThumbCalled ==
    /\ tpc = "fetch"
    /\ tidx = 1
    /\ tlog = <<>>
    /\ tresult = "pending"


(***************************************************************************)
(* Playlist Resolver: EarthCamQA.get_latest_ts_segment                     *)
(***************************************************************************)
\* A URL is a directory and a name in it; a URI inside a manifest is relative
\* (dir = "") or absolute.  Names are the position of the entry in its list.
PlaylistUrl == [dir |-> "d0", kind |-> "manifest", n |-> 0]
\* the values of ts_url that are no URL: not returned yet, and Python's None
PendingUrl == [dir |-> "", kind |-> "pending", n |-> 0]
NoneUrl == [dir |-> "", kind |-> "None", n |-> 0]
UriDirs == {"", "d1"}
\* BANDWIDTH values a variant may declare; NoStreamInfo: p.stream_info is None
Bandwidths == {500000, 1200000}
NoStreamInfo == -1

RECURSIVE SeqsUpTo(_, _)
\* all sequences over S of length 0..n
SeqsUpTo(S, n) ==
    IF n = 0 THEN {<<>>}
    ELSE LET shorter == SeqsUpTo(S, n - 1)
         IN  shorter \cup {Append(q, x) : q \in {r \in shorter : Len(r) = n - 1}, x \in S}

\* the entries of a manifest as written (each entry's name is its position)
VariantLines == [bandwidth : Bandwidths \cup {NoStreamInfo}, dir : UriDirs]
SegmentLines == [dir : UriDirs]

NoManifest == [is_variant |-> FALSE, playlists |-> <<>>, segments |-> <<>>, loaded |-> FALSE]
MasterManifests ==
    {[is_variant |-> TRUE, playlists |-> v, segments |-> <<>>, loaded |-> TRUE] :
        v \in SeqsUpTo(VariantLines, MaxVariants)}
MediaManifests ==
    {[is_variant |-> FALSE, playlists |-> <<>>, segments |-> g, loaded |-> TRUE] :
        g \in SeqsUpTo(SegmentLines, MaxSegments)}
Manifests == MasterManifests \cup MediaManifests
\* what the variant URL may hold: a media manifest, or a master again (of
\* which only "no segments" matters, so the short ones stand for all)
VariantManifests ==
    MediaManifests \cup {m \in MasterManifests : Len(m.playlists) <= 1}

\* urllib.parse.urljoin(base, uri)
Urljoin(base, dir, kind, n) ==
    [dir |-> IF dir = "" THEN base.dir ELSE dir, kind |-> kind, n |-> n]

\* key=lambda p: p.stream_info.bandwidth if p.stream_info else 0
BandwidthKey(v) == IF v.bandwidth = NoStreamInfo THEN 0 ELSE v.bandwidth

\* a variant of BestIndex that takes the first listed variant
FirstIndex(pls) == 1

\* max(playlist.playlists, key=...): the first variant with the greatest key
BestIndex(pls) ==
    CHOOSE k \in 1..Len(pls) :
        /\ \A j \in 1..Len(pls) : BandwidthKey(pls[k]) >= BandwidthKey(pls[j])
        /\ \A j \in 1..(k - 1) : BandwidthKey(pls[j]) < BandwidthKey(pls[k])

\* a variant of LatestIndex that takes the oldest segment
OldestIndex(segs) == 1

\* playlist.segments[-1]
LatestIndex(segs) == Len(segs)

\* what can end an attempt without a segment
FailureKinds == {"load_error", "no_variants", "variant_load_error", "no_segments"}

\* a variant of AttemptFails that lets the failure leave the function
AttemptRaises(why) ==
    /\ lfails' = Append(lfails, why)
    /\ lpc' = "raised"
    /\ UNCHANGED <<attempt, lresult>>

\* a variant of AttemptFails that goes round the loop once more
AttemptFailsOnceMore(why) ==
    /\ lfails' = Append(lfails, why)
    /\ IF attempt < MaxAttempts
          THEN /\ attempt' = attempt + 1
               /\ lpc' = "sleep"
               /\ UNCHANGED lresult
          ELSE /\ lpc' = "done"
               /\ lresult' = NoneUrl
               /\ UNCHANGED attempt

\* the attempt is over without a segment ("except Exception", or the else
\* branch of "if playlist.segments"): the next iteration, or "return None"
AttemptFails(why) ==
    /\ lfails' = Append(lfails, why)
    /\ IF attempt + 1 < MaxAttempts
          THEN /\ attempt' = attempt + 1
               /\ lpc' = "sleep"
               /\ UNCHANGED lresult
          ELSE /\ lpc' = "done"
               /\ lresult' = NoneUrl
               /\ UNCHANGED attempt

\* if attempt > 0: time.sleep(3)
ListSleep ==
    /\ lpc = "sleep"
    /\ llog' = Append(llog, [ev |-> "sleep", url |-> PlaylistUrl])
    /\ lpc' = "load"
    /\ UNCHANGED <<attempt, playlist, lurl, best, lresult, lfails>>
    /\ UNCHANGED notList

\* m3u8.load(playlist_url, ...) raises (fetch or parse error)
ListLoadRaises ==
    /\ lpc = "load"
    /\ llog' = Append(llog, [ev |-> "load", url |-> PlaylistUrl])
    /\ AttemptFails("load_error")
    /\ UNCHANGED <<playlist, lurl, best>>
    /\ UNCHANGED notList

\* playlist = m3u8.load(playlist_url, ...)
ListLoad ==
    /\ lpc = "load"
    /\ \E m \in Manifests :
        /\ playlist' = m
        /\ lpc' = IF m.is_variant THEN "select" ELSE "segments"
    /\ lurl' = PlaylistUrl
    /\ best' = 0
    /\ llog' = Append(llog, [ev |-> "load", url |-> PlaylistUrl])
    /\ UNCHANGED <<attempt, lresult, lfails>>
    /\ UNCHANGED notList

\* best_playlist = max(...) raises ValueError on an empty playlists list
ListSelectRaises ==
    /\ lpc = "select"
    /\ Len(playlist.playlists) = 0
    /\ AttemptFails("no_variants")
    /\ UNCHANGED <<playlist, lurl, best, llog>>
    /\ UNCHANGED notList

\* best_playlist = max(...); variant_url = urljoin(playlist_url, best_playlist.uri)
ListSelect ==
    /\ lpc = "select"
    /\ Len(playlist.playlists) > 0
    /\ best' = BestIndex(playlist.playlists)
    /\ lpc' = "variant"
    /\ UNCHANGED <<attempt, playlist, lurl, llog, lresult, lfails>>
    /\ UNCHANGED notList

VariantUrl == Urljoin(PlaylistUrl, playlist.playlists[best].dir, "variant", best)

\* m3u8.load(variant_url, ...) raises
ListLoadVariantRaises ==
    /\ lpc = "variant"
    /\ llog' = Append(llog, [ev |-> "load", url |-> VariantUrl])
    /\ AttemptFails("variant_load_error")
    /\ UNCHANGED <<playlist, lurl, best>>
    /\ UNCHANGED notList

\* playlist = m3u8.load(variant_url, ...)
ListLoadVariant ==
    /\ lpc = "variant"
    /\ \E m \in VariantManifests : playlist' = m
    /\ lurl' = VariantUrl
    /\ llog' = Append(llog, [ev |-> "load", url |-> VariantUrl])
    /\ lpc' = "segments"
    /\ UNCHANGED <<attempt, best, lresult, lfails>>
    /\ UNCHANGED notList

\* a variant of BaseUri that resolves against the URL the function was given
MasterBase == PlaylistUrl

\* playlist.base_uri or playlist_url: m3u8.load sets base_uri from the URL the
\* held manifest was loaded from
BaseUri == lurl

\* if playlist.segments: return urljoin(playlist.base_uri or playlist_url,
\* playlist.segments[-1].uri); else the attempt ends without a segment
ListSegments ==
    /\ lpc = "segments"
    /\ IF Len(playlist.segments) > 0
          THEN /\ lresult' = Urljoin(BaseUri,
                                playlist.segments[LatestIndex(playlist.segments)].dir,
                                "segment", LatestIndex(playlist.segments))
               /\ lpc' = "done"
               /\ UNCHANGED <<attempt, lfails>>
          ELSE AttemptFails("no_segments")
    /\ UNCHANGED <<playlist, lurl, best, llog>>
    /\ UNCHANGED notList

ListIdle ==
    /\ lpc = "idle"
    /\ attempt = 0
    /\ playlist = NoManifest
    /\ lurl = PlaylistUrl
    /\ best = 0
    /\ llog = <<>>
    /\ lresult = PendingUrl
    /\ lfails = <<>>

\* the state on entry to the first iteration (attempt = 0: no sleep)
ListCalled ==
    /\ lpc = "load"
    /\ attempt = 0
    /\ playlist = NoManifest
    /\ lurl = PlaylistUrl
    /\ best = 0
    /\ llog = <<>>
    /\ lresult = PendingUrl
    /\ lfails = <<>>


(***************************************************************************)
(* Dynamic Renderer: EarthCamQA.extract_hls_url_with_browser               *)
(***************************************************************************)
\* what handle_request can tell about a request URL: it contains ".m3u8"; it
\* is a platform URL carrying an 11-character video id; it is a platform URL
\* without one; anything else
RequestKinds == {"m3u8", "youtube_id", "youtube_noid", "other"}
\* the rendered content: whether the m3u8 regex and the platform regex match
HtmlUnread == [read |-> FALSE, m3u8 |-> FALSE, youtube |-> FALSE]
HtmlContents == [read : {TRUE}, m3u8 : BOOLEAN, youtube : BOOLEAN]

PendingResult == [kind |-> "pending", from |-> "", idx |-> 0]
NoneResult == [kind |-> "None", from |-> "", idx |-> 0]

\* a variant of SelectResult that looks at the rendered content only
SelectFromHtml(cm, cy, h) ==
    IF h.m3u8 THEN [kind |-> "m3u8", from |-> "html", idx |-> 0]
    ELSE IF h.youtube THEN [kind |-> "youtube", from |-> "html", idx |-> 0]
    ELSE NoneResult

\* the chain of returns after browser.close()
SelectResult(cm, cy, h) ==
    IF Len(cm) > 0 THEN [kind |-> "m3u8", from |-> "wire", idx |-> cm[1]]
    ELSE IF Len(cy) > 0 THEN [kind |-> "youtube", from |-> "wire", idx |-> cy[1]]
    ELSE IF h.m3u8 THEN [kind |-> "m3u8", from |-> "html", idx |-> 0]
    ELSE IF h.youtube THEN [kind |-> "youtube", from |-> "html", idx |-> 0]
    ELSE NoneResult

\* a variant of DriverStop that leaves the driver's browser running
DriverStopLeaks(b) == b

\* leaving "with sync_playwright() as p" stops the driver, which ends every
\* browser process it launched
DriverStop(b) == IF b = "open" THEN "closed" ELSE b

\* an exception leaves the with block
BRaise(step) ==
    /\ raised' = step
    /\ bpc' = "exit"

\* sync_playwright().__enter__ raises: nothing was started
BStartRaises ==
    /\ bpc = "start"
    /\ raised' = "start"
    /\ bpc' = "done"
    /\ bresult' = NoneResult
    /\ UNCHANGED <<driver, browser, observer, observed, captured_m3u8,
                   captured_youtube, html>>
    /\ UNCHANGED notBrowser

\* with sync_playwright() as p
BStart ==
    /\ bpc = "start"
    /\ driver' = "running"
    /\ bpc' = "launch"
    /\ UNCHANGED <<browser, observer, observed, captured_m3u8, captured_youtube,
                   html, raised, bresult>>
    /\ UNCHANGED notBrowser

\* p.chromium.launch(headless=True) raises
BLaunchRaises ==
    /\ bpc = "launch"
    /\ BRaise("launch")
    /\ UNCHANGED <<driver, browser, observer, observed, captured_m3u8,
                   captured_youtube, html, bresult>>
    /\ UNCHANGED notBrowser

\* browser = p.chromium.launch(headless=True)
BLaunch ==
    /\ bpc = "launch"
    /\ browser' = "open"
    /\ bpc' = "context"
    /\ UNCHANGED <<driver, observer, observed, captured_m3u8, captured_youtube,
                   html, raised, bresult>>
    /\ UNCHANGED notBrowser

\* browser.new_context(...) or context.new_page() raises
BContextRaises ==
    /\ bpc = "context"
    /\ BRaise("context")
    /\ UNCHANGED <<driver, browser, observer, observed, captured_m3u8,
                   captured_youtube, html, bresult>>
    /\ UNCHANGED notBrowser

\* context = browser.new_context(...); page = context.new_page();
\* captured_m3u8 = []; captured_youtube = []
BContext ==
    /\ bpc = "context"
    /\ captured_m3u8' = <<>>
    /\ captured_youtube' = <<>>
    /\ bpc' = "install"
    /\ UNCHANGED <<driver, browser, observer, observed, html, raised, bresult>>
    /\ UNCHANGED notBrowser

\* page.on('request', handle_request)
BInstall ==
    /\ bpc = "install"
    /\ observer' = TRUE
    /\ bpc' = "goto"
    /\ UNCHANGED <<driver, browser, observed, captured_m3u8, captured_youtube,
                   html, raised, bresult>>
    /\ UNCHANGED notBrowser

\* the page issues a request while it loads or during the grace period;
\* handle_request(request) runs when the observer is installed
BRequest ==
    /\ bpc \in {"goto", "idle", "sleep"}
    /\ Len(observed) < MaxRequests
    /\ \E k \in RequestKinds :
        /\ observed' = Append(observed, k)
        /\ captured_m3u8' =
              IF observer /\ k = "m3u8"
                 THEN Append(captured_m3u8, Len(observed) + 1) ELSE captured_m3u8
        /\ captured_youtube' =
              IF observer /\ k = "youtube_id"
                 THEN Append(captured_youtube, Len(observed) + 1) ELSE captured_youtube
    /\ UNCHANGED <<bpc, driver, browser, observer, html, raised, bresult>>
    /\ UNCHANGED notBrowser

\* page.goto(page_url, wait_until='domcontentloaded', timeout=...) returns
BGoto ==
    /\ bpc = "goto"
    /\ bpc' = "idle"
    /\ UNCHANGED <<driver, browser, observer, observed, captured_m3u8,
                   captured_youtube, html, raised, bresult>>
    /\ UNCHANGED notBrowser

\* page.goto raises or times out: "except: pass"
BGotoFails ==
    /\ bpc = "goto"
    /\ raised' = "goto"
    /\ bpc' = "sleep"
    /\ UNCHANGED <<driver, browser, observer, observed, captured_m3u8,
                   captured_youtube, html, bresult>>
    /\ UNCHANGED notBrowser

\* page.wait_for_load_state('networkidle', timeout=5000) returns
BIdle ==
    /\ bpc = "idle"
    /\ bpc' = "sleep"
    /\ UNCHANGED <<driver, browser, observer, observed, captured_m3u8,
                   captured_youtube, html, raised, bresult>>
    /\ UNCHANGED notBrowser

\* page.wait_for_load_state raises or times out: "except: pass"
BIdleFails ==
    /\ bpc = "idle"
    /\ raised' = "networkidle"
    /\ bpc' = "sleep"
    /\ UNCHANGED <<driver, browser, observer, observed, captured_m3u8,
                   captured_youtube, html, bresult>>
    /\ UNCHANGED notBrowser

\* time.sleep(2) is over
BSleep ==
    /\ bpc = "sleep"
    /\ bpc' = "content"
    /\ UNCHANGED <<driver, browser, observer, observed, captured_m3u8,
                   captured_youtube, html, raised, bresult>>
    /\ UNCHANGED notBrowser

\* html = page.content() raises (the page is still navigating, or crashed)
BContentRaises ==
    /\ bpc = "content"
    /\ BRaise("content")
    /\ UNCHANGED <<driver, browser, observer, observed, captured_m3u8,
                   captured_youtube, html, bresult>>
    /\ UNCHANGED notBrowser

\* html = page.content()
BContent ==
    /\ bpc = "content"
    /\ \E h \in HtmlContents : html' = h
    /\ bpc' = "close"
    /\ UNCHANGED <<driver, browser, observer, observed, captured_m3u8,
                   captured_youtube, raised, bresult>>
    /\ UNCHANGED notBrowser

\* browser.close()
BClose ==
    /\ bpc = "close"
    /\ browser' = "closed"
    /\ bpc' = "select"
    /\ UNCHANGED <<driver, observer, observed, captured_m3u8, captured_youtube,
                   html, raised, bresult>>
    /\ UNCHANGED notBrowser

\* the returns after browser.close(): the first non-empty source
BSelect ==
    /\ bpc = "select"
    /\ bresult' = SelectResult(captured_m3u8, captured_youtube, html)
    /\ bpc' = "exit"
    /\ UNCHANGED <<driver, browser, observer, observed, captured_m3u8,
                   captured_youtube, html, raised>>
    /\ UNCHANGED notBrowser

\* the with block is left (by a return or by an exception); an exception then
\* reaches "except Exception: return None"
BExit ==
    /\ bpc = "exit"
    /\ driver' = "stopped"
    /\ browser' = DriverStop(browser)
    /\ bresult' = IF bresult = PendingResult THEN NoneResult ELSE bresult
    /\ bpc' = "done"
    /\ UNCHANGED <<observer, observed, captured_m3u8, captured_youtube, html, raised>>
    /\ UNCHANGED notBrowser

BrowserFresh ==
    /\ driver = "none"
    /\ browser = "none"
    /\ observer = FALSE
    /\ observed = <<>>
    /\ captured_m3u8 = <<>>
    /\ captured_youtube = <<>>
    /\ html = HtmlUnread
    /\ raised = "nothing"
    /\ bresult = PendingResult

BrowserIdle == bpc = "idle" /\ BrowserFresh

\* the state on entry to extract_hls_url_with_browser
BrowserCalled == bpc = "start" /\ BrowserFresh

(***************************************************************************)
(* Static Page Resolver: the page-text rules of EarthCamQA.extract_hls_url *)
(* and EarthCamQA.extract_youtube_stream                                   *)
(***************************************************************************)
\* response.url after redirects: whether it is on the video platform, which
\* URL form it has ("watch" for watch?v=, "short" for youtu.be/, "embed" for
\* embed/, "none" for any other platform URL) and how many id characters
\* follow the marker
IdLengths == {10, 11, 12}
FinalUrls ==
    {[platform |-> FALSE, form |-> "none", idlen |-> 0],
     [platform |-> TRUE, form |-> "none", idlen |-> 0]} \cup
    [platform : {TRUE}, form : {"watch", "short", "embed"}, idlen : IdLengths]

\* the text of a JSON field value as a sequence of tokens; "\\/" is the
\* escaped slash of a JSON string, NoField an absent field
Host == "https://d1.example.com"
StreamPath == "cam1/index.m3u8"
NoField == <<>>
DomainFields == {NoField, <<Host>>, <<Host, "/">>, <<Host, "\\/">>}
PathFields == {NoField, <<StreamPath>>, <<"/", StreamPath>>, <<"\\/", StreamPath>>}

\* a fetched page: its final URL, its status, and which patterns its text holds
Pages ==
    [final : FinalUrls,
     status : {HttpOk, 404},
     earthcamtv : BOOLEAN,      \* an <iframe src=...> naming earthcamtv.com
     yt_text : BOOLEAN,         \* youtube.com/embed/ | watch?v= | youtu.be/ + id
     yt_iframe : BOOLEAN,       \* a platform iframe src with embed/ or watch?v= + id
     domain : DomainFields,     \* html5_streamingdomain":"..."
     path : PathFields,         \* html5_streampath":"..."
     literal : BOOLEAN,         \* a literal http(s) URL ending in .m3u8
     player : BOOLEAN]          \* "file": "....m3u8"

\* descriptors (the strings extract_hls_url returns, and None)
NoDesc == [kind |-> "None", by |-> "nothing", url |-> <<>>]
PendingDesc == [kind |-> "pending", by |-> "nothing", url |-> <<>>]
Desc(kind, by) == [kind |-> kind, by |-> by, url |-> <<>>]
DescUrl(kind, by, url) == [kind |-> kind, by |-> by, url |-> url]

\* re.search(r'...([a-zA-Z0-9_-]{11})', youtube_url): the pattern matches when
\* at least 11 id characters follow the marker
ExtractYoutubeStream(final) ==
    IF final.form \in {"watch", "short", "embed"} /\ final.idlen >= 11
       THEN Desc("youtube", "redirect")
       ELSE NoDesc

\* s.replace(r'\/', '/')
Unescape(s) == [k \in 1..Len(s) |-> IF s[k] = "\\/" THEN "/" ELSE s[k]]

\* a variant of JoinFields that leaves one slash where the two values meet
JoinOneSlash(d, p) ==
    LET dd == Unescape(d)
        pp == Unescape(p)
    IN  IF Len(dd) > 0 /\ Len(pp) > 0 /\ dd[Len(dd)] = "/" /\ pp[1] = "/"
           THEN dd \o Tail(pp)
           ELSE dd \o pp

\* hls_url = domain + path, both with their escaped slashes replaced
JoinFields(d, p) == Unescape(d) \o Unescape(p)

\* a variant of RestRules that looks for a literal manifest URL first
LiteralFirst(pg) ==
    IF pg.literal THEN Desc("m3u8", "literal")
    ELSE IF pg.yt_text THEN Desc("youtube", "yt_text")
    ELSE IF pg.yt_iframe THEN Desc("youtube", "yt_iframe")
    ELSE IF pg.domain # NoField /\ pg.path # NoField
       THEN DescUrl("m3u8", "fields", JoinFields(pg.domain, pg.path))
    ELSE IF pg.player THEN Desc("m3u8", "player")
    ELSE NoDesc

\* the rules applied to the page text after the iframe check, in code order
RestRules(pg) ==
    IF pg.yt_text THEN Desc("youtube", "yt_text")
    ELSE IF pg.yt_iframe THEN Desc("youtube", "yt_iframe")
    ELSE IF pg.domain # NoField /\ pg.path # NoField
       THEN DescUrl("m3u8", "fields", JoinFields(pg.domain, pg.path))
    ELSE IF pg.literal THEN Desc("m3u8", "literal")
    ELSE IF pg.player THEN Desc("m3u8", "player")
    ELSE NoDesc

(***************************************************************************)
(* The pipeline for one candidate (EarthCamQA.capture_camera_image with    *)
(* EarthCamQA.extract_hls_url) and the callers' loop over the candidates   *)
(* (EarthCamQA.answer_question, TemporalRAGQA.answer_question_with_rag).   *)
(* The tiers called from here return a value or None; what each does       *)
(* inside is the subject of its own specification.                         *)
(***************************************************************************)
Callers == {"answer_question", "answer_question_with_rag"}
\* what extract_hls_url_with_browser can return
BrowserReturns == {Desc("m3u8", "browser"), Desc("youtube", "browser"), NoDesc}

Min(a, b) == IF a < b THEN a ELSE b

\* camera_urls[:3]
Tried(n) == Min(TryLimit, n)

\* a variant of Breaks that never leaves the loop early
NeverBreaks(img) == FALSE

\* if image_path: break
Breaks(img) == img # "None"

\* a variant of OnSegmentFailure that hands the page to the browser
RetryWithBrowser == "fallback"

\* if not ts_url: return None  /  frame is None: return None
OnSegmentFailure == "returned"

Tier(t, ok) == [tier |-> t, ok |-> ok]

\* a variant of IsMarker that takes no descriptor for a platform marker
NeverMarker(d) == FALSE

\* isinstance(hls_url, str) and hls_url.startswith('YOUTUBE:')
IsMarker(d) == d.kind = "youtube"

\* the loop head: the next candidate of camera_urls[:3], or the loop is over
\* and the camera is reported unavailable; answer_question_with_rag returns
\* "did not find cameras" before the loop when the list is empty
LoopNext ==
    /\ ppc = "loop"
    /\ IF ncand = 0 /\ caller = "answer_question_with_rag"
          THEN /\ outcome' = "no_cameras"
               /\ ppc' = "reported"
               /\ UNCHANGED <<cand, fetched, rest, hls_url, tiers, image_path>>
          ELSE IF cand < Tried(ncand)
          THEN /\ cand' = cand + 1
               /\ ppc' = "static"
               /\ fetched' = "no"
               /\ rest' = PendingDesc
               /\ hls_url' = PendingDesc
               /\ tiers' = <<>>
               /\ image_path' = "pending"
               /\ UNCHANGED outcome
          ELSE /\ outcome' = "unavailable"
               /\ ppc' = "reported"
               /\ UNCHANGED <<cand, fetched, rest, hls_url, tiers, image_path>>
    /\ UNCHANGED <<caller, ncand, tries>>
    /\ UNCHANGED notPipe

\* requests.get(page_url, ...) raises: "except Exception", then the browser
StaticFetchRaises ==
    /\ ppc = "static"
    /\ fetched' = "raised"
    /\ tiers' = Append(tiers, Tier("static", FALSE))
    /\ ppc' = "fallback"
    /\ UNCHANGED <<caller, ncand, cand, rest, hls_url, image_path, tries, outcome>>
    /\ UNCHANGED notPipe

\* requests.get returns a page: a final URL on the platform returns
\* extract_youtube_stream(final_url); an earthcamtv iframe goes to the browser;
\* otherwise the page-text rules return a descriptor or fall out of the try
StaticFetch ==
    /\ ppc = "static"
    /\ \E pg \in Pages :
        IF pg.final.platform
           THEN /\ fetched' = "platform"
                /\ rest' = PendingDesc
                /\ hls_url' = ExtractYoutubeStream(pg.final)
                /\ tiers' = Append(tiers,
                               Tier("static", ExtractYoutubeStream(pg.final) # NoDesc))
                /\ ppc' = "resolved"
        ELSE IF pg.earthcamtv
           THEN /\ fetched' = "iframe"
                /\ rest' = RestRules(pg)
                /\ tiers' = Append(tiers, Tier("static", FALSE))
                /\ ppc' = "iframe_browser"
                /\ UNCHANGED hls_url
        ELSE /\ fetched' = "scanned"
             /\ rest' = RestRules(pg)
             /\ tiers' = Append(tiers, Tier("static", RestRules(pg) # NoDesc))
             /\ IF RestRules(pg) # NoDesc
                   THEN hls_url' = RestRules(pg) /\ ppc' = "resolved"
                   ELSE UNCHANGED hls_url /\ ppc' = "fallback"
    /\ UNCHANGED <<caller, ncand, cand, image_path, tries, outcome>>
    /\ UNCHANGED notPipe

\* browser_result = self.extract_hls_url_with_browser(page_url) for an
\* earthcamtv iframe: returned if truthy, else the page-text rules go on
IframeBrowser ==
    /\ ppc = "iframe_browser"
    /\ \E r \in BrowserReturns :
        /\ tiers' = Append(tiers, Tier("browser", r # NoDesc))
        /\ IF r # NoDesc
              THEN hls_url' = r /\ ppc' = "resolved"
           ELSE IF rest # NoDesc
              THEN hls_url' = rest /\ ppc' = "resolved"
           ELSE UNCHANGED hls_url /\ ppc' = "fallback"
    /\ UNCHANGED <<caller, ncand, cand, fetched, rest, image_path, tries, outcome>>
    /\ UNCHANGED notPipe

\* return self.extract_hls_url_with_browser(page_url) after the try block
FallbackBrowser ==
    /\ ppc = "fallback"
    /\ \E r \in BrowserReturns :
        /\ tiers' = Append(tiers, Tier("browser", r # NoDesc))
        /\ hls_url' = r
    /\ ppc' = "resolved"
    /\ UNCHANGED <<caller, ncand, cand, fetched, rest, image_path, tries, outcome>>
    /\ UNCHANGED notPipe

\* capture_camera_image after extract_hls_url: nothing found returns None, a
\* YOUTUBE: marker goes to the thumbnail, anything else to the playlist
Dispatch ==
    /\ ppc = "resolved"
    /\ IF hls_url = NoDesc
          THEN image_path' = "None" /\ ppc' = "returned"
       ELSE IF IsMarker(hls_url)
          THEN UNCHANGED image_path /\ ppc' = "thumbnail"
       ELSE UNCHANGED image_path /\ ppc' = "playlist"
    /\ UNCHANGED <<caller, ncand, cand, fetched, rest, hls_url, tiers, tries, outcome>>
    /\ UNCHANGED notPipe

\* return self.capture_youtube_thumbnail(video_id)
Thumbnail ==
    /\ ppc = "thumbnail"
    /\ \E ok \in BOOLEAN :
        /\ tiers' = Append(tiers, Tier("thumbnail", ok))
        /\ image_path' = IF ok THEN "file" ELSE "None"
    /\ ppc' = "returned"
    /\ UNCHANGED <<caller, ncand, cand, fetched, rest, hls_url, tries, outcome>>
    /\ UNCHANGED notPipe

\* ts_url = self.get_latest_ts_segment(hls_url); if not ts_url: return None
Playlist ==
    /\ ppc = "playlist"
    /\ \E ok \in BOOLEAN :
        /\ tiers' = Append(tiers, Tier("playlist", ok))
        /\ IF ok
              THEN UNCHANGED image_path /\ ppc' = "decode"
              ELSE image_path' = "None" /\ ppc' = OnSegmentFailure
    /\ UNCHANGED <<caller, ncand, cand, fetched, rest, hls_url, tries, outcome>>
    /\ UNCHANGED notPipe

\* frame = self.extract_frame_from_ts(ts_url); the frame is saved and its
\* file name returned, or None is returned
Decode ==
    /\ ppc = "decode"
    /\ \E ok \in BOOLEAN :
        /\ tiers' = Append(tiers, Tier("decoder", ok))
        /\ IF ok
              THEN image_path' = "file" /\ ppc' = "returned"
              ELSE image_path' = "None" /\ ppc' = OnSegmentFailure
    /\ UNCHANGED <<caller, ncand, cand, fetched, rest, hls_url, tries, outcome>>
    /\ UNCHANGED notPipe

\* back in the caller: "if image_path: break", else the next iteration
LoopCheck ==
    /\ ppc = "returned"
    /\ tries' = Append(tries, [idx |-> cand, ok |-> image_path # "None"])
    /\ IF Breaks(image_path)
          THEN outcome' = "image" /\ ppc' = "reported"
          ELSE UNCHANGED outcome /\ ppc' = "loop"
    /\ UNCHANGED <<caller, ncand, cand, fetched, rest, hls_url, tiers, image_path>>
    /\ UNCHANGED notPipe

PipeFresh ==
    /\ cand = 0
    /\ fetched = "no"
    /\ rest = PendingDesc
    /\ hls_url = PendingDesc
    /\ tiers = <<>>
    /\ image_path = "pending"
    /\ tries = <<>>
    /\ outcome = "pending"

PipeIdle ==
    /\ caller = "answer_question"
    /\ ncand = 0
    /\ ppc = "idle"
    /\ PipeFresh

\* search_earthcam has returned camera_urls; the loop is about to start
PipeCalled ==
    /\ caller \in Callers
    /\ ncand \in 0..SearchLimit
    /\ ppc = "loop"
    /\ PipeFresh

(***************************************************************************)
(* One invocation of EarthCamQA.extract_hls_url on a known response: the   *)
(* response (or the failure of the fetch) is fixed when the invocation     *)
(* starts, the two browser calls return a value or None.                   *)
(***************************************************************************)
\* a response whose text holds none of the patterns
BlankPage ==
    [final |-> [platform |-> FALSE, form |-> "none", idlen |-> 0],
     status |-> HttpOk, earthcamtv |-> FALSE, yt_text |-> FALSE,
     yt_iframe |-> FALSE, domain |-> NoField, path |-> NoField,
     literal |-> FALSE, player |-> FALSE]

\* a variant of OnPlatform that never takes the final URL for a platform URL
PlatformIgnored(final) == FALSE

\* 'youtube.com' in final_url or 'youtu.be' in final_url
OnPlatform(final) == final.platform

\* a variant of HasEarthcamtv that renders a page on the first call only
EarthcamtvOnce(pg) == pg.earthcamtv /\ scount = 1

\* a variant of HasEarthcamtv that sends every page to the browser
AlwaysEarthcamtv(pg) == TRUE

\* has_earthcamtv_iframe: an iframe src of the page names earthcamtv.com
HasEarthcamtv(pg) == pg.earthcamtv

BrowserCall(site, r) == [site |-> site, ret |-> r]

\* a variant of Truthy that takes None for a result too
AlwaysTruthy(r) == TRUE

\* if browser_result:
Truthy(r) == r # NoDesc

\* requests.get(page_url, ...) raises: "except Exception", then the browser
ResolveFetchRaises ==
    /\ spc = "fetch"
    /\ sfetch = "raised"
    /\ spc' = "fallback"
    /\ UNCHANGED <<sfetch, page, sdesc, scalls, scount, sprev>>
    /\ UNCHANGED notStatic

\* the try block on the response: the final URL, the iframe check, then the
\* page-text rules; no rule looks at response.status_code
ResolveScan ==
    /\ spc = "fetch"
    /\ sfetch = "ok"
    /\ IF OnPlatform(page.final)
          THEN sdesc' = ExtractYoutubeStream(page.final) /\ spc' = "returned"
       ELSE IF HasEarthcamtv(page)
          THEN UNCHANGED sdesc /\ spc' = "iframe_browser"
       ELSE IF RestRules(page) # NoDesc
          THEN sdesc' = RestRules(page) /\ spc' = "returned"
       ELSE UNCHANGED sdesc /\ spc' = "fallback"
    /\ UNCHANGED <<sfetch, page, scalls, scount, sprev>>
    /\ UNCHANGED notStatic

\* browser_result = self.extract_hls_url_with_browser(page_url);
\* "if browser_result: return browser_result", else the page-text rules go on
ResolveIframeBrowser ==
    /\ spc = "iframe_browser"
    /\ \E r \in BrowserReturns :
        /\ scalls' = Append(scalls, BrowserCall("iframe", r))
        /\ IF Truthy(r)
              THEN sdesc' = r /\ spc' = "returned"
           ELSE IF RestRules(page) # NoDesc
              THEN sdesc' = RestRules(page) /\ spc' = "returned"
           ELSE UNCHANGED sdesc /\ spc' = "fallback"
    /\ UNCHANGED <<sfetch, page, scount, sprev>>
    /\ UNCHANGED notStatic

\* return self.extract_hls_url_with_browser(page_url) after the try block
ResolveFallback ==
    /\ spc = "fallback"
    /\ \E r \in BrowserReturns :
        /\ scalls' = Append(scalls, BrowserCall("fallback", r))
        /\ sdesc' = r
    /\ spc' = "returned"
    /\ UNCHANGED <<sfetch, page, scount, sprev>>
    /\ UNCHANGED notStatic

\* extract_hls_url is called again for the same page and the network gives
\* the same response; the function keeps nothing from the first call (it
\* assigns only local variables)
ResolveAgain ==
    /\ spc = "returned"
    /\ scount = 1
    /\ sprev' = [desc |-> sdesc, calls |-> scalls]
    /\ scount' = 2
    /\ sdesc' = PendingDesc
    /\ scalls' = <<>>
    /\ spc' = "fetch"
    /\ UNCHANGED <<sfetch, page>>
    /\ UNCHANGED notStatic

NoCall == [desc |-> PendingDesc, calls |-> <<>>]

StaticIdle ==
    /\ spc = "idle"
    /\ sfetch = "ok"
    /\ page = BlankPage
    /\ sdesc = PendingDesc
    /\ scalls = <<>>
    /\ scount = 1
    /\ sprev = NoCall

\* extract_hls_url(page_url) has been called; the network holds the answer
StaticCalled ==
    /\ spc = "fetch"
    /\ \/ sfetch = "ok" /\ page \in Pages
       \/ sfetch = "raised" /\ page = BlankPage
    /\ sdesc = PendingDesc
    /\ scalls = <<>>
    /\ scount = 1
    /\ sprev = NoCall

(***************************************************************************)
(* Saving the image: the last lines of EarthCamQA.capture_camera_image and *)
(* the accepting branch of EarthCamQA.capture_youtube_thumbnail, for       *)
(* invocations on different candidate pages that run concurrently.         *)
(***************************************************************************)
Savers == 1..NumSavers
SaveKinds == {"frame", "thumbnail"}
\* f"captured_images/qa_capture_{timestamp}.jpg" and
\* f"captured_images/qa_capture_youtube_{timestamp}.jpg", the timestamp being
\* datetime.now().strftime("%Y%m%d_%H%M%S"): the clock second
OutName(kind, now) == [kind |-> kind, sec |-> now]
OutNames == [kind : SaveKinds, sec : 0..MaxClock]
NoName == [kind |-> "none", sec |-> 0]
\* no invocation has written the file
Nobody == 0

\* the invocation has its image in hand (frame is not None, or the thumbnail
\* response was accepted) and forms the file name from the clock
SaveName(i) ==
    /\ opc[i] = "idle"
    /\ \E k \in SaveKinds :
        /\ okind' = [okind EXCEPT ![i] = k]
        /\ oname' = [oname EXCEPT ![i] = OutName(k, clock)]
    /\ opc' = [opc EXCEPT ![i] = "named"]
    /\ UNCHANGED outfiles
    /\ UNCHANGED notSave

\* cv2.imwrite(filename, frame)  /  open(filename, 'wb').write(response.content):
\* the file is created, or replaced when it exists
SaveWrite(i) ==
    /\ opc[i] = "named"
    /\ outfiles' = [outfiles EXCEPT ![oname[i]] = i]
    /\ opc' = [opc EXCEPT ![i] = "written"]
    /\ UNCHANGED <<okind, oname>>
    /\ UNCHANGED notSave

\* return filename
SaveReturn(i) ==
    /\ opc[i] = "written"
    /\ opc' = [opc EXCEPT ![i] = "done"]
    /\ UNCHANGED <<okind, oname, outfiles>>
    /\ UNCHANGED notSave

SaveIdle ==
    /\ opc = [i \in Savers |-> "idle"]
    /\ okind = [i \in Savers |-> "frame"]
    /\ oname = [i \in Savers |-> NoName]
    /\ outfiles = [n \in OutNames |-> Nobody]

(***************************************************************************)
(* The history store (TemporalRAG.add_record, TemporalRAG.query_by_time)   *)
(* and TemporalRAGQA.answer_question_with_rag from the capture on.  Time   *)
(* is counted in seconds; the store may already hold records of earlier    *)
(* days when the first call starts.                                        *)
(***************************************************************************)
Cities == {"paris", "tokyo"}
ComparisonTypes == {"none", "yesterday", "last_week", "general", "trend"}
\* a datetime: the whole second and the position inside that second
Stamp(sec, sub) == [sec |-> sec, sub |-> sub]
NoStamp == Stamp(0, 0)
Row(city, cam, img, text, ts) ==
    [city |-> city, camera_url |-> cam, image_path |-> img, analysis |-> text,
     ts |-> ts]
NoRow == Row("", "", "", "", NoStamp)
\* rows earlier calls may have left in the store
HistoryRows ==
    <<Row("paris", "url", "file", "text", Stamp(0, 0)),
      Row("paris", "url", "file", "text", Stamp(3, 0)),
      Row("paris", "url", "file", "text", Stamp(3601, 0)),
      Row("tokyo", "url", "file", "text", Stamp(0, 0))>>

RECURSIVE Keep(_, _)
\* the rows of seq whose position is in K, in order
Keep(seq, K) ==
    IF seq = <<>> THEN <<>>
    ELSE LET front == Keep(SubSeq(seq, 1, Len(seq) - 1), K)
         IN  IF Len(seq) \in K THEN Append(front, seq[Len(seq)]) ELSE front

\* record_id = f"{city}_{timestamp.strftime('%Y%m%d_%H%M%S')}": the city and
\* the whole second
RecordId(city, ts) == [city |-> city, sec |-> ts.sec]
VecEntry(row) == [id |-> RecordId(row.city, row.ts), row |-> row]
VecIds == {e.id : e \in rvec}

\* a variant of Falsy that takes the empty text for an analysis
OnlyNone(x) == x = "None"

\* "if not x" for a string or None
Falsy(x) == x \in {"None", ""}

\* t1 <= t2 for datetimes
StampLeq(t1, t2) == t1.sec < t2.sec \/ (t1.sec = t2.sec /\ t1.sub <= t2.sub)

\* target_time = current_time - timedelta(days=1 | weeks=1)
TargetTime(ctype, now) ==
    Stamp(now.sec - (IF ctype = "last_week" THEN WeekSeconds ELSE DaySeconds),
          now.sub)

\* WHERE city = ? AND timestamp BETWEEN start_time AND end_time
InWindow(city, target) ==
    {k \in 1..Len(rsql) :
        /\ rsql[k].city = city
        /\ StampLeq(Stamp(target.sec - WindowSeconds, target.sub), rsql[k].ts)
        /\ StampLeq(rsql[k].ts, Stamp(target.sec + WindowSeconds, target.sub))}

\* ORDER BY timestamp DESC, then historical_records[0]
FirstByTimeDesc(S) == CHOOSE k \in S : \A j \in S : StampLeq(rsql[j].ts, rsql[k].ts)

\* the call is over
RagReturn(how) ==
    /\ ranswer' = how
    /\ rpc' = "idle"

\* answer_question_with_rag(user_query): the intent names a city, the query is
\* or is not a comparison, and search_earthcam found cameras
RagAsk ==
    /\ rpc = "idle"
    /\ rcalls < MaxCalls
    /\ rcalls' = rcalls + 1
    /\ \E c \in Cities, t \in ComparisonTypes : rcity' = c /\ rtype' = t
    /\ rimage' = "None"
    /\ ranalysis' = "None"
    /\ rtime' = NoStamp
    /\ rsteps' = <<>>
    /\ rhist' = NoRow
    /\ ranswer' = "pending"
    /\ rpc' = "capture"
    /\ UNCHANGED <<rag_on, rnow, rvec, rsql, rids>>
    /\ UNCHANGED notRag

\* the loop over camera_urls[:3]: an image path, or "temporarily unavailable"
RagCapture ==
    /\ rpc = "capture"
    /\ \E img \in {"None", "file"} :
        /\ rimage' = img
        /\ IF Falsy(img)
              THEN RagReturn("unavailable")
              ELSE rpc' = "vision" /\ UNCHANGED ranswer
    /\ UNCHANGED <<rag_on, rnow, rcalls, rcity, rtype, ranalysis, rtime, rvec,
                   rsql, rids, rsteps, rhist>>
    /\ UNCHANGED notRag

\* current_analysis = self.call_llm_vision(...); "if not current_analysis";
\* then "if self.enable_rag and self.rag": current_time = datetime.now()
RagVision ==
    /\ rpc = "vision"
    /\ \E a \in {"None", "", "text"} :
        /\ ranalysis' = a
        /\ IF Falsy(a)
              THEN RagReturn("analysis_failed") /\ UNCHANGED rtime
           ELSE IF rag_on
              THEN /\ rtime' = Stamp(rnow, rcalls)
                   /\ rpc' = "add_vector"
                   /\ UNCHANGED ranswer
           ELSE rpc' = "answer" /\ UNCHANGED <<rtime, ranswer>>
    /\ UNCHANGED <<rag_on, rnow, rcalls, rcity, rtype, rimage, rvec, rsql, rids,
                   rsteps, rhist>>
    /\ UNCHANGED notRag

\* the row add_record is writing
CurrentRow == Row(rcity, "url", rimage, ranalysis, rtime)

\* self.collection.add(documents, metadatas, ids=[record_id]); for an id the
\* collection already holds, the installed chromadb either leaves the
\* collection as it is or raises
AddVector ==
    /\ rpc = "add_vector"
    /\ rsteps' = Append(rsteps, "add")
    /\ \/ /\ RecordId(rcity, rtime) \notin VecIds
          /\ rvec' = rvec \cup {VecEntry(CurrentRow)}
          /\ rpc' = "add_sql"
          /\ UNCHANGED ranswer
       \/ /\ RecordId(rcity, rtime) \in VecIds
          /\ UNCHANGED rvec
          /\ \/ rpc' = "add_sql" /\ UNCHANGED ranswer
             \/ RagReturn("raised")
    /\ UNCHANGED <<rag_on, rnow, rcalls, rcity, rtype, rimage, ranalysis, rtime,
                   rsql, rids, rhist>>
    /\ UNCHANGED notRag

\* sqlite3.connect / cursor.execute("INSERT ...") / conn.commit() raises
\* (locked or unwritable database): the exception leaves add_record and
\* answer_question_with_rag
AddSqlRaises ==
    /\ rpc = "add_sql"
    /\ RagReturn("raised")
    /\ UNCHANGED <<rag_on, rnow, rcalls, rcity, rtype, rimage, ranalysis, rtime,
                   rvec, rsql, rids, rsteps, rhist>>
    /\ UNCHANGED notRag

\* INSERT INTO camera_records ...; conn.commit(); return record_id; then
\* "if is_comparison"
AddSql ==
    /\ rpc = "add_sql"
    /\ rsql' = Append(rsql, CurrentRow)
    /\ rids' = Append(rids, RecordId(rcity, rtime))
    /\ rpc' = IF rtype # "none" THEN "lookup" ELSE "answer"
    /\ UNCHANGED <<rag_on, rnow, rcalls, rcity, rtype, rimage, ranalysis, rtime,
                   rvec, rsteps, rhist, ranswer>>
    /\ UNCHANGED notRag

\* historical_records = self.rag.query_by_time(city, target_time, 60);
\* historical_context = historical_records[0] when the list is not empty
RagLookup ==
    /\ rpc = "lookup"
    /\ rsteps' = Append(rsteps, "lookup")
    /\ LET found == InWindow(rcity, TargetTime(rtype, rtime))
       IN  rhist' = IF found = {} THEN NoRow ELSE rsql[FirstByTimeDesc(found)]
    /\ rpc' = "answer"
    /\ UNCHANGED <<rag_on, rnow, rcalls, rcity, rtype, rimage, ranalysis, rtime,
                   rvec, rsql, rids, ranswer>>
    /\ UNCHANGED notRag

\* the final answer is generated and returned
RagAnswer ==
    /\ rpc = "answer"
    /\ RagReturn("answer")
    /\ UNCHANGED <<rag_on, rnow, rcalls, rcity, rtype, rimage, ranalysis, rtime,
                   rvec, rsql, rids, rsteps, rhist>>
    /\ UNCHANGED notRag

\* a second passes between two calls
RagTick ==
    /\ rpc = "idle"
    /\ rnow \notin {DaySeconds + MaxClock, WeekSeconds + MaxClock}
    /\ rnow' = rnow + 1
    /\ UNCHANGED <<rag_on, rpc, rcalls, rcity, rtype, rimage, ranalysis, rtime,
                   rvec, rsql, rids, rsteps, rhist, ranswer>>
    /\ UNCHANGED notRag

RagFresh ==
    /\ rpc = "idle"
    /\ rcalls = 0
    /\ rcity = "paris"
    /\ rtype = "none"
    /\ rimage = "None"
    /\ ranalysis = "None"
    /\ rtime = NoStamp
    /\ rids = <<>>
    /\ rsteps = <<>>
    /\ rhist = NoRow
    /\ ranswer = "pending"

RagIdle ==
    /\ rag_on = FALSE
    /\ rnow = 0
    /\ rvec = {}
    /\ rsql = <<>>
    /\ RagFresh

\* TemporalRAGQA(enable_rag=...) has been constructed on a store that holds
\* what earlier runs left, the same records in the collection and in the table
RagCalled ==
    /\ rag_on \in BOOLEAN
    /\ rnow \in {DaySeconds, WeekSeconds}
    /\ \E K \in SUBSET (1..Len(HistoryRows)) :
        /\ rsql = Keep(HistoryRows, K)
        /\ rvec = {VecEntry(HistoryRows[k]) : k \in K}
    /\ RagFresh

(***************************************************************************)
(* Specifications                                                          *)
(***************************************************************************)
\* one invocation of capture_youtube_thumbnail
InitThumb == DecInit /\ ThumbCalled /\ ListIdle /\ BrowserIdle /\ PipeIdle /\ StaticIdle /\ SaveIdle /\ RagIdle

NextThumb ==
    \/ ThumbFetchRaises
    \/ ThumbFetch

SpecThumb == InitThumb /\ [][NextThumb]_vars

\* one invocation of get_latest_ts_segment
InitPlaylist == DecInit /\ ThumbIdle /\ ListCalled /\ BrowserIdle /\ PipeIdle /\ StaticIdle /\ SaveIdle /\ RagIdle

NextPlaylist ==
    \/ ListSleep
    \/ ListLoadRaises
    \/ ListLoad
    \/ ListSelectRaises
    \/ ListSelect
    \/ ListLoadVariantRaises
    \/ ListLoadVariant
    \/ ListSegments

SpecPlaylist == InitPlaylist /\ [][NextPlaylist]_vars

\* one invocation of extract_hls_url_with_browser
InitBrowser == DecInit /\ ThumbIdle /\ ListIdle /\ BrowserCalled /\ PipeIdle /\ StaticIdle /\ SaveIdle /\ RagIdle

NextBrowser ==
    \/ BStartRaises
    \/ BStart
    \/ BLaunchRaises
    \/ BLaunch
    \/ BContextRaises
    \/ BContext
    \/ BInstall
    \/ BRequest
    \/ BGoto
    \/ BGotoFails
    \/ BIdle
    \/ BIdleFails
    \/ BSleep
    \/ BContentRaises
    \/ BContent
    \/ BClose
    \/ BSelect
    \/ BExit

SpecBrowser == InitBrowser /\ [][NextBrowser]_vars

\* the callers' loop over the candidate pages
InitPipeline == DecInit /\ ThumbIdle /\ ListIdle /\ BrowserIdle /\ PipeCalled /\ StaticIdle /\ SaveIdle /\ RagIdle

NextPipeline ==
    \/ LoopNext
    \/ StaticFetchRaises
    \/ StaticFetch
    \/ IframeBrowser
    \/ FallbackBrowser
    \/ Dispatch
    \/ Thumbnail
    \/ Playlist
    \/ Decode
    \/ LoopCheck

SpecPipeline == InitPipeline /\ [][NextPipeline]_vars

\* concurrent invocations of extract_frame_from_ts
InitDecoder == DecInit /\ ThumbIdle /\ ListIdle /\ BrowserIdle /\ PipeIdle /\ StaticIdle /\ SaveIdle /\ RagIdle

NextDecoder ==
    \/ \E i \in Decoders : DecStart(i)
    \/ \E i \in Decoders : DecGetRaises(i)
    \/ \E i \in Decoders : DecGet(i)
    \/ \E i \in Decoders : DecWrite(i)
    \/ \E i \in Decoders : DecOpen(i)
    \/ \E i \in Decoders : DecRead(i)
    \/ \E i \in Decoders : DecRemove(i)
    \/ Tick

SpecDecoder == InitDecoder /\ [][NextDecoder]_vars

\* one invocation of extract_hls_url on a known response
InitStatic == DecInit /\ ThumbIdle /\ ListIdle /\ BrowserIdle /\ PipeIdle /\ StaticCalled /\ SaveIdle /\ RagIdle

NextStatic ==
    \/ ResolveFetchRaises
    \/ ResolveScan
    \/ ResolveIframeBrowser
    \/ ResolveFallback
    \/ ResolveAgain

SpecStatic == InitStatic /\ [][NextStatic]_vars

\* concurrent invocations saving their image
InitSave ==
    DecInit /\ ThumbIdle /\ ListIdle /\ BrowserIdle /\ PipeIdle /\ StaticIdle
        /\ SaveIdle /\ RagIdle

NextSave ==
    \/ \E i \in Savers : SaveName(i)
    \/ \E i \in Savers : SaveWrite(i)
    \/ \E i \in Savers : SaveReturn(i)
    \/ Tick

SpecSave == InitSave /\ [][NextSave]_vars

\* successive answer_question_with_rag calls on one history store
InitRag ==
    DecInit /\ ThumbIdle /\ ListIdle /\ BrowserIdle /\ PipeIdle /\ StaticIdle
        /\ SaveIdle /\ RagCalled

NextRag ==
    \/ RagAsk
    \/ RagCapture
    \/ RagVision
    \/ AddVector
    \/ AddSqlRaises
    \/ AddSql
    \/ RagLookup
    \/ RagAnswer
    \/ RagTick

SpecRag == InitRag /\ [][NextRag]_vars

(***************************************************************************)
(* Claims about the Frame Decoder                                          *)
(***************************************************************************)
\* an invocation that ran alone: every other invocation has not started
RanAlone(i) == \A j \in Decoders \ {i} : dpc[j] = "idle"

\* C1: on every exit path of a single extract_frame_from_ts invocation the
\* temporary segment file it created is gone when it returns: the number of
\* temporary segment files is the same before and after the invocation.
C1_TempFileReleased ==
    \A i \in Decoders :
        (dpc[i] = "done" /\ RanAlone(i)) => TempFileCount = dbefore[i]

\* an invocation holds a temporary path from naming it until it returns
HoldsPath(i) == dpc[i] \in {"open", "read", "remove"}

\* C2: two Frame Decoder invocations that run concurrently use distinct
\* temporary file paths, also when both start within the same clock second.
C2_DistinctTempPaths ==
    \A i, j \in Decoders :
        (i # j /\ HoldsPath(i) /\ HoldsPath(j)) => dpath[i] # dpath[j]

(***************************************************************************)
(* Claims about the Platform Thumbnail Fallback                            *)
(***************************************************************************)
\* a logged reply that qualifies: success status and a body above 1000 bytes
Qualifies(e) == ~e.reply.raised /\ e.reply.status = 200 /\ e.reply.size > 1000
QualifyingAt == {k \in 1..Len(tlog) : Qualifies(tlog[k])}

\* C6: the endpoints are requested in the order maxres, hq, mq; the result is
\* the first endpoint whose reply has status 200 and more than 1000 bytes, no
\* request follows that acceptance, a raised or rejected fetch moves on, and
\* with no qualifying endpoint the result is None after all three requests.
C6_ThumbFirstAccepted ==
    /\ Len(tlog) <= 3
    /\ \A k \in 1..Len(tlog) : tlog[k].url = <<"maxres", "hq", "mq">>[k]
    /\ \A k \in QualifyingAt : k = Len(tlog)
    /\ tpc = "fetch" => (QualifyingAt = {} /\ tidx = Len(tlog) + 1)
    /\ tpc = "done" =>
          IF QualifyingAt = {}
             THEN tresult = "None" /\ Len(tlog) = 3
             ELSE tresult = tlog[Len(tlog)].url

\* the scenario of body sizes [50, 1500, 9000]: hq is accepted, mq never asked
C6_Witness ==
    /\ tpc = "done"
    /\ Len(tlog) = 2
    /\ tlog[1].reply = [raised |-> FALSE, status |-> 200, size |-> 50]
    /\ tlog[2].reply = [raised |-> FALSE, status |-> 200, size |-> 1500]
    /\ tresult = "hq"

(***************************************************************************)
(* Claims about the Playlist Resolver                                      *)
(***************************************************************************)
\* C4: for a master manifest with at least one variant, the selected variant's
\* declared bandwidth is at least the declared bandwidth of every listed variant.
C4_MaxBandwidthSelected ==
    lpc = "variant" =>
        /\ best \in 1..Len(playlist.playlists)
        /\ \A j \in 1..Len(playlist.playlists) :
              playlist.playlists[j].bandwidth # -1 =>
                 /\ playlist.playlists[best].bandwidth # -1
                 /\ playlist.playlists[best].bandwidth >= playlist.playlists[j].bandwidth

\* the scenario of variants 500000 and 1200000: the second one is selected
C4_Witness ==
    /\ lpc = "variant"
    /\ Len(playlist.playlists) = 2
    /\ playlist.playlists[1].bandwidth = 500000
    /\ playlist.playlists[2].bandwidth = 1200000
    /\ best = 2

\* C5: for a media manifest with a non-empty segment sequence the returned
\* segment is the last element of the sequence, never another index.
C5_LastSegmentResolved ==
    (lpc = "done" /\ lresult.kind # "None") =>
        /\ Len(playlist.segments) > 0
        /\ lresult.kind = "segment"
        /\ lresult.n = Len(playlist.segments)

\* the scenario [seg1.ts, seg2.ts, seg3.ts]: seg3.ts is returned
C5_Witness ==
    /\ lpc = "done"
    /\ Len(playlist.segments) = 3
    /\ lresult.kind = "segment"
    /\ lresult.n = 3

\* where a URI of a manifest at location base points: a relative URI ("")
\* stays in the directory of base, any other names its own
ResolvedDir(base, dir) == IF dir = "" THEN base.dir ELSE dir

\* the load that follows the selection is for the selected variant's URI
\* resolved against playlist_url, and the segment returned is the last
\* segment's URI resolved against the location of the manifest that lists it
ResolvedStep ==
    /\ lpc = "variant" =>
          /\ llog' = Append(llog, [ev |-> "load", url |-> llog'[Len(llog')].url])
          /\ llog'[Len(llog')].url.kind = "variant"
          /\ llog'[Len(llog')].url.n = best
          /\ llog'[Len(llog')].url.dir =
                ResolvedDir(PlaylistUrl, playlist.playlists[best].dir)
          /\ lpc' = "segments" => lurl' = llog'[Len(llog')].url
    /\ (lpc' = "done" /\ lresult'.kind = "segment") =>
          /\ llog[Len(llog)] = [ev |-> "load", url |-> lurl]
          /\ lresult'.dir =
                ResolvedDir(lurl, playlist.segments[Len(playlist.segments)].dir)

\* C25: when the fetched manifest is a master, the next fetch of that attempt
\* is for the selected variant's URI resolved relative to the master's URL;
\* the segment URL returned is the last segment's URI resolved relative to
\* the base URI of the media manifest that lists it, never to the master's.
C25_ResolvedAgainstOwnManifest == [][ResolvedStep]_vars

\* the variant lies in another directory than the master and its last segment
\* has a relative URI: the segment URL is in the variant's directory
C25_Witness ==
    /\ lpc = "done"
    /\ lresult.kind = "segment"
    /\ lurl.kind = "variant"
    /\ lurl.dir = "d1"
    /\ playlist.segments[Len(playlist.segments)].dir = ""
    /\ lresult.dir = "d1"
    /\ lresult.dir # PlaylistUrl.dir

\* the positions in llog where an attempt started: loads of playlist_url
MasterLoads ==
    {k \in 1..Len(llog) : llog[k] = [ev |-> "load", url |-> PlaylistUrl]}

\* the positions in llog of the backoff delays
Sleeps == {k \in 1..Len(llog) : llog[k].ev = "sleep"}

\* C14: get_latest_ts_segment makes at most 2 attempts; the second is made
\* only if the first ended without a segment; one backoff delay lies between
\* the two attempts and none before the first; an attempt that finds a
\* segment returns at once, with no further attempt or delay.
C14_AtMostTwoAttempts ==
    /\ Cardinality(MasterLoads) <= 2
    /\ Cardinality(Sleeps) <= 1
    /\ Len(lfails) >= Cardinality(MasterLoads) - 1
    /\ Cardinality(MasterLoads) = 2 => Cardinality(Sleeps) = 1
    /\ llog # <<>> => llog[1] = [ev |-> "load", url |-> PlaylistUrl]
    /\ \A k \in Sleeps :
          /\ Cardinality({j \in MasterLoads : j < k}) = 1
          /\ k < Len(llog) => k + 1 \in MasterLoads
    /\ lresult.kind = "segment" =>
          /\ lpc = "done"
          /\ llog[Len(llog)].ev = "load"
          /\ Len(lfails) = Cardinality(MasterLoads) - 1

\* the first attempt met an empty segment list, the second returned a segment
C14_Witness ==
    /\ lpc = "done"
    /\ lresult.kind = "segment"
    /\ lfails = <<"no_segments">>
    /\ Cardinality(MasterLoads) = 2
    /\ Cardinality(Sleeps) = 1

\* C15: an attempt that fails in any way (manifest fetch or parse error, a
\* master manifest without variants, a variant fetch error, an empty segment
\* list) never leaves get_latest_ts_segment as an exception: it counts as a
\* failed attempt, the next attempt follows while one remains, and after the
\* last failed attempt the function returns None.
C15_FailuresAbsorbed ==
    /\ lpc # "raised"
    /\ Len(lfails) <= 2
    /\ \A k \in 1..Len(lfails) : lfails[k] \in FailureKinds
    /\ lpc # "done" => (lresult = PendingUrl /\ Len(lfails) = attempt)
    /\ lpc = "done" =>
          /\ lresult.kind \in {"None", "segment"}
          /\ lresult = NoneUrl <=> Len(lfails) = 2
    /\ Len(lfails) >= 1 => attempt = 1

\* a master manifest without variants, then a variant that could not be loaded
C15_Witness ==
    /\ lpc = "done"
    /\ lresult = NoneUrl
    /\ lfails = <<"no_variants", "variant_load_error">>

(***************************************************************************)
(* Claims about the Dynamic Renderer                                       *)
(***************************************************************************)
\* C3: on every exit path of extract_hls_url_with_browser the browser it
\* launched has been closed before the invocation returns.
C3_BrowserClosedOnReturn ==
    bpc = "done" => (browser # "open" /\ driver # "running")

\* an error path after launch: reading the rendered content raised, and the
\* launched browser is closed at the return
C3_Witness ==
    /\ bpc = "done"
    /\ raised = "content"
    /\ browser = "closed"

WireManifests == {k \in 1..Len(observed) : observed[k] = "m3u8"}
WirePlatform == {k \in 1..Len(observed) : observed[k] = "youtube_id"}

\* C7: the result is a manifest URL seen among the network requests, else a
\* platform reference seen among the requests, else a manifest URL in the
\* rendered content, else a platform reference in it, else None; a lower
\* source is returned only when every higher one is empty.
C7_CapturePriority ==
    bpc = "done" =>
        IF WireManifests # {}
           THEN bresult.kind = "m3u8" /\ bresult.from = "wire"
        ELSE IF WirePlatform # {}
           THEN bresult.kind = "youtube" /\ bresult.from = "wire"
        ELSE IF html.m3u8
           THEN bresult.kind = "m3u8" /\ bresult.from = "html"
        ELSE IF html.youtube
           THEN bresult.kind = "youtube" /\ bresult.from = "html"
        ELSE bresult.kind = "None"

\* navigation or the network-quiescence wait raised and "except: pass" took it
NavFailed == raised \in {"goto", "networkidle"}

\* after a failed navigation the with block is left only by the returns that
\* follow browser.close(), with what was captured on the wire returned
NavTolerated ==
    (NavFailed /\ bpc' = "exit") =>
        /\ bpc = "select"
        /\ Len(captured_m3u8) > 0 =>
              (bresult'.kind = "m3u8" /\ bresult'.from = "wire")
        /\ (Len(captured_m3u8) = 0 /\ Len(captured_youtube) > 0) =>
              (bresult'.kind = "youtube" /\ bresult'.from = "wire")

\* C23: when page.goto or wait_for_load_state times out or raises, the
\* renderer does not fail: the grace period and the result selection still
\* take place, and a manifest URL or platform reference captured before the
\* timeout is returned.
C23_NavTimeoutTolerated == [][NavTolerated]_vars

\* the positions of extract_hls_url_with_browser from navigation to the reading
\* of the content
Navigating == {"goto", "idle", "sleep", "content"}

\* the first element of a non-empty set of positions
First(S) == CHOOSE k \in S : \A j \in S : k <= j

\* C26: the request observer is installed before navigation starts, so that
\* every request issued from navigation onward (during navigation and during
\* the grace period) is in the capture lists, in order; the rendered content
\* is read only after the grace period and before the browser is closed; and
\* the result is selected from the whole capture set.
C26_RendererStepOrder ==
    /\ bpc \in Navigating => (observer /\ browser = "open" /\ ~html.read)
    /\ observed # <<>> => observer
    /\ Len(captured_m3u8) = Cardinality(WireManifests)
    /\ Len(captured_youtube) = Cardinality(WirePlatform)
    /\ \A k \in 1..Len(captured_m3u8) :
          /\ captured_m3u8[k] \in WireManifests
          /\ \A j \in 1..(k - 1) : captured_m3u8[j] < captured_m3u8[k]
    /\ \A k \in 1..Len(captured_youtube) :
          /\ captured_youtube[k] \in WirePlatform
          /\ \A j \in 1..(k - 1) : captured_youtube[j] < captured_youtube[k]
    /\ html.read => bpc \in {"close", "select", "exit", "done"}
    /\ (browser = "closed" /\ raised \notin {"launch", "context", "content"})
          => html.read
    /\ (bpc = "done" /\ html.read) =>
          IF WireManifests # {}
             THEN bresult = [kind |-> "m3u8", from |-> "wire",
                             idx |-> First(WireManifests)]
          ELSE IF WirePlatform # {}
             THEN bresult = [kind |-> "youtube", from |-> "wire",
                             idx |-> First(WirePlatform)]
          ELSE bresult.from # "wire"

\* navigation timed out; of the two requests the page issued, the second was
\* for a manifest and is the result
C26_Witness ==
    /\ bpc = "done"
    /\ raised = "goto"
    /\ html.read
    /\ observed = <<"youtube_noid", "m3u8">>
    /\ bresult = [kind |-> "m3u8", from |-> "wire", idx |-> 2]

(***************************************************************************)
(* Claims about the pipeline and the callers' loop                         *)
(***************************************************************************)
AllFailed(n) == \A j \in 1..n : ~tries[j].ok

\* C8 (as stated): the candidates of a list of any length are tried in list
\* order until one yields an image, and the camera is reported unavailable
\* only after every candidate of the list has been tried.
C8_EveryCandidateTried ==
    /\ \A j \in 1..Len(tries) : tries[j].idx = j
    /\ AllFailed(Len(tries) - 1)
    /\ outcome = "unavailable" => (Len(tries) = ncand /\ AllFailed(ncand))

\* C8 (amended): the first three candidates of the list are tried in list
\* order: candidate k <= 3 is tried only if candidates 1..k-1 all failed, none
\* is tried after one has yielded an image, and the camera is reported
\* unavailable only after each of the first min(3, n) candidates has been tried.
C8_FirstThreeTried ==
    /\ \A j \in 1..Len(tries) : tries[j].idx = j
    /\ AllFailed(Len(tries) - 1)
    /\ Len(tries) <= 3 /\ Len(tries) <= ncand
    /\ ppc \in {"static", "iframe_browser", "fallback", "resolved", "thumbnail",
                "playlist", "decode", "returned"} => cand = Len(tries) + 1
    /\ outcome = "unavailable" =>
          /\ Len(tries) = (IF ncand < 3 THEN ncand ELSE 3)
          /\ AllFailed(Len(tries))
    /\ outcome = "image" => (Len(tries) > 0 /\ tries[Len(tries)].ok)
    /\ ppc = "reported" => outcome \in {"image", "unavailable", "no_cameras"}
    /\ outcome = "no_cameras" => ncand = 0

\* five candidates, the first three failed, the camera is reported unavailable
C8_Witness ==
    /\ ncand = 5
    /\ outcome = "unavailable"
    /\ Len(tries) = 3

BrowserInvoked == \E i \in 1..Len(tiers) : tiers[i].tier = "browser"

\* C9: whenever static extraction yields no descriptor for a page (the fetch
\* raised, no rule matched, or the final URL is on the platform without a
\* valid video id) the Dynamic Renderer is invoked for the page before the
\* resolver reports NotFound for it.
C9_BrowserBeforeNotFound ==
    (ppc = "resolved" /\ hls_url = NoDesc) => BrowserInvoked

\* the static resolver produced the manifest URL of this candidate
StaticManifest == hls_url.kind = "m3u8" /\ hls_url.by # "browser"
SegmentFailures ==
    {i \in 1..Len(tiers) : tiers[i].tier \in {"playlist", "decoder"} /\ ~tiers[i].ok}

\* C10 (as stated): if the static resolver yields a manifest URL and the
\* Playlist Resolver or the Frame Decoder then fails on it, the Dynamic
\* Renderer is tried for the page before the candidate is reported as failed.
C10_BrowserAfterSegmentFailure ==
    (ppc = "returned" /\ StaticManifest /\ SegmentFailures # {}) =>
        \E i \in SegmentFailures, j \in 1..Len(tiers) :
            i < j /\ tiers[j].tier = "browser"

\* C10 (amended): if the static resolver yields a manifest URL and the
\* Playlist Resolver or the Frame Decoder then fails on it, the pipeline
\* returns failure for the candidate at once: no tier is invoked after the
\* failed one.
C10_FailureReturnsAtOnce ==
    (StaticManifest /\ SegmentFailures # {}) =>
        /\ SegmentFailures = {Len(tiers)}
        /\ ppc \in {"returned", "loop", "reported"}
        /\ image_path = "None"

\* a page whose literal manifest URL the playlist resolver failed on
C10_Witness ==
    /\ ppc = "returned"
    /\ hls_url = Desc("m3u8", "literal")
    /\ Len(tiers) = 2
    /\ tiers[2] = [tier |-> "playlist", ok |-> FALSE]
    /\ image_path = "None"

\* the tiers invoked so far for the candidate, by name
Invoked(t) == {k \in 1..Len(tiers) : tiers[k].tier = t}

\* C19: a platform video id goes directly to the thumbnail tier, and the
\* playlist resolver and the frame decoder are never invoked for that
\* candidate; the thumbnail tier is invoked only for a platform video id and
\* the playlist resolver only for a manifest URL.
C19_RouteByDescriptor ==
    /\ Invoked("thumbnail") # {} =>
          /\ hls_url.kind = "youtube"
          /\ Invoked("playlist") = {}
          /\ Invoked("decoder") = {}
    /\ Invoked("playlist") # {} => hls_url.kind = "m3u8"
    /\ Invoked("decoder") # {} => hls_url.kind = "m3u8"
    /\ ppc = "thumbnail" => hls_url.kind = "youtube"
    /\ ppc \in {"playlist", "decode"} => hls_url.kind = "m3u8"
    /\ (ppc = "returned" /\ hls_url.kind = "youtube") =>
          /\ Invoked("thumbnail") = {Len(tiers)}
          /\ Invoked("playlist") = {}
          /\ Invoked("decoder") = {}
    /\ (ppc = "returned" /\ hls_url.kind = "m3u8") =>
          /\ Invoked("playlist") # {}
          /\ Invoked("thumbnail") = {}

\* a platform id found by the browser went to the thumbnail tier and nowhere else
C19_Witness ==
    /\ ppc = "returned"
    /\ hls_url = Desc("youtube", "browser")
    /\ tiers[Len(tiers)] = Tier("thumbnail", TRUE)
    /\ image_path = "file"

\* the positions of capture_camera_image and extract_hls_url, and how far
\* each is from the return of capture_camera_image
CandidateSteps ==
    {"static", "iframe_browser", "fallback", "resolved", "thumbnail",
     "playlist", "decode"}

StepsLeft(pc) ==
    CASE pc = "static" -> 7
      [] pc = "iframe_browser" -> 6
      [] pc = "fallback" -> 5
      [] pc = "resolved" -> 4
      [] pc \in {"thumbnail", "playlist"} -> 3
      [] pc = "decode" -> 2
      [] pc = "returned" -> 1
      [] OTHER -> 0

\* one step of capture_camera_image or extract_hls_url brings the invocation
\* strictly nearer to its return, within the bounds on the tiers it calls
BoundedStep ==
    ppc \in CandidateSteps =>
        /\ ppc' \in CandidateSteps \cup {"returned"}
        /\ StepsLeft(ppc') < StepsLeft(ppc)
        /\ Cardinality(Invoked("static")') <= 1
        /\ Cardinality(Invoked("browser")') <= 2
        /\ Cardinality(Invoked("playlist")') <= 1
        /\ Cardinality(Invoked("decoder")') <= 1
        /\ Cardinality(Invoked("thumbnail")') <= 1
        /\ (Invoked("thumbnail")' = {} \/ Invoked("playlist")' = {})
        /\ (ppc' = "returned" => image_path' \in {"file", "None"})
        /\ (ppc' # "returned" => image_path' = "pending")

C11_FinalUrlDecides ==
    (spc = "returned" /\ sfetch = "ok" /\ page.final.platform) =>
        /\ sdesc = ExtractYoutubeStream(page.final)
        /\ sdesc.by \in {"redirect", "nothing"}
        /\ scalls = <<>>

\* a platform final URL on a body that holds an earthcamtv iframe, both JSON
\* fields and a literal manifest URL
C11_Witness ==
    /\ spc = "returned"
    /\ sfetch = "ok"
    /\ page.final = [platform |-> TRUE, form |-> "watch", idlen |-> 11]
    /\ page.earthcamtv
    /\ page.domain # NoField
    /\ page.path # NoField
    /\ page.literal
    /\ sdesc = Desc("youtube", "redirect")

\* a response none of the rules before the JSON field pair matches
NoEarlierRule(pg) ==
    /\ ~pg.final.platform
    /\ ~pg.earthcamtv
    /\ ~pg.yt_text
    /\ ~pg.yt_iframe

\* the response of the scenario: html5_streamingdomain":"https://d1.example.com/"
\* and html5_streampath":"/cam1/index.m3u8"
FieldsScenario(pg) ==
    /\ pg.domain = <<Host, "/">>
    /\ pg.path = <<"/", StreamPath>>

\* C12 (as stated): for a page with both JSON fields that no earlier rule
\* matches, extract_hls_url returns the manifest URL formed from the two
\* values, and for "https://d1.example.com/" and "/cam1/index.m3u8" that URL
\* is exactly https://d1.example.com/cam1/index.m3u8.
C12_ScenarioSingleSlash ==
    (spc = "returned" /\ sfetch = "ok" /\ NoEarlierRule(page)
        /\ FieldsScenario(page)) =>
        /\ sdesc.by = "fields"
        /\ sdesc.url = <<Host, "/", StreamPath>>

\* C12 (amended): for a page with both JSON fields that no earlier rule
\* matches, extract_hls_url returns the manifest URL that is the first value
\* followed by the second, each with its escaped slashes replaced, nothing
\* inserted or removed where they meet; for "https://d1.example.com/" and
\* "/cam1/index.m3u8" that is https://d1.example.com//cam1/index.m3u8.
C12_FieldsConcatenated ==
    (spc = "returned" /\ sfetch = "ok" /\ NoEarlierRule(page)
        /\ page.domain # NoField /\ page.path # NoField) =>
        /\ sdesc.kind = "m3u8"
        /\ sdesc.by = "fields"
        /\ scalls = <<>>
        /\ Len(sdesc.url) = Len(page.domain) + Len(page.path)
        /\ \A k \in 1..Len(sdesc.url) : sdesc.url[k] # "\\/"
        /\ sdesc.url[1] = Host
        /\ sdesc.url[Len(sdesc.url)] = StreamPath
        /\ FieldsScenario(page) => sdesc.url = <<Host, "/", "/", StreamPath>>

\* the scenario's page resolved, with a literal manifest URL also in the text
C12_Witness ==
    /\ spc = "returned"
    /\ sfetch = "ok"
    /\ NoEarlierRule(page)
    /\ FieldsScenario(page)
    /\ page.literal
    /\ sdesc = DescUrl("m3u8", "fields", <<Host, "/", "/", StreamPath>>)

\* C13: extract_youtube_stream returns a platform video id only if the
\* identifier after the marker is exactly 11 characters long; any other
\* length, shorter or longer, yields None.
C13_ExactlyElevenCharacters ==
    (spc = "returned" /\ sfetch = "ok" /\ page.final.platform) =>
        /\ sdesc.kind = "youtube" => page.final.idlen = 11
        /\ page.final.idlen # 11 => sdesc = NoDesc

\* what the try block yields without a browser: the id parsed from a platform
\* final URL, else the first page-text rule that matches
StaticYield(pg) ==
    IF pg.final.platform THEN ExtractYoutubeStream(pg.final) ELSE RestRules(pg)

\* C16: a browser session is opened for a page only if the static scan found
\* an earthcamtv iframe or the static extraction produced no descriptor (no
\* rule matched, or the fetch raised); when the static rules return a
\* descriptor for a page without such an iframe, no browser session is opened.
C16_BrowserOnlyWhenNeeded ==
    /\ scalls # <<>> =>
          \/ sfetch = "raised"
          \/ page.earthcamtv
          \/ StaticYield(page) = NoDesc
    /\ (spc = "returned" /\ sfetch = "ok" /\ ~page.earthcamtv
          /\ StaticYield(page) # NoDesc) =>
          /\ scalls = <<>>
          /\ sdesc = StaticYield(page)

\* the browser was opened for an earthcamtv iframe on a page whose text also
\* holds a literal manifest URL
C16_Witness ==
    /\ spc = "returned"
    /\ page.earthcamtv
    /\ page.literal
    /\ scalls = <<BrowserCall("iframe", Desc("m3u8", "browser"))>>
    /\ sdesc = Desc("m3u8", "browser")

\* a response with an earthcamtv iframe whose final URL is not on the platform
IframePage == sfetch = "ok" /\ ~page.final.platform /\ page.earthcamtv

\* C17 (as stated): for a page with a camera-hosting iframe (final URL not on
\* the platform) the descriptor is whatever the browser yields, and the
\* lower-priority page-text rules never produce the result.
C17_IframeResultFromBrowser ==
    (spc = "returned" /\ IframePage) =>
        /\ sdesc.by \in {"browser", "nothing"}
        /\ sdesc = scalls[Len(scalls)].ret

\* C17 (amended): for such a page the browser runs before any page-text rule;
\* a descriptor it yields is the result; when it yields None the page-text
\* rules are applied and their first match is the result; only when none
\* matches does the browser run again, and what it yields then is the result.
C17_IframeBrowserFirst ==
    (spc = "returned" /\ IframePage) =>
        /\ Len(scalls) >= 1
        /\ scalls[1].site = "iframe"
        /\ IF scalls[1].ret # NoDesc
              THEN Len(scalls) = 1 /\ sdesc = scalls[1].ret
           ELSE IF RestRules(page) # NoDesc
              THEN Len(scalls) = 1 /\ sdesc = RestRules(page)
           ELSE /\ Len(scalls) = 2
                /\ scalls[2].site = "fallback"
                /\ sdesc = scalls[2].ret

\* the browser found nothing behind the iframe and the literal manifest URL
\* of the page text became the result
C17_Witness ==
    /\ spc = "returned"
    /\ IframePage
    /\ scalls = <<BrowserCall("iframe", NoDesc)>>
    /\ sdesc = Desc("m3u8", "literal")

\* the descriptors the page-text rules and the final-URL rule produce
StaticRules == {"redirect", "yt_text", "yt_iframe", "fields", "literal", "player"}

\* C18: when the fetch fails with a network error or a non-success status,
\* the static rules produce nothing: the body of a non-success response is
\* never pattern-scanned (what is returned, if anything, is the browser's).
C18_NonSuccessNotScanned ==
    (spc = "returned" /\ (sfetch = "raised" \/ page.status # HttpOk)) =>
        sdesc.by \notin StaticRules

C22_SavedImageKept ==
    \A i \in Savers :
        opc[i] = "done" => outfiles[oname[i]] = i

\* a response the page-text rules are applied to directly
TextPage == sfetch = "ok" /\ ~page.final.platform /\ ~page.earthcamtv

\* C24: when the final URL is not on the platform and the page has no
\* earthcamtv iframe, the page-text rules are applied in a fixed order and the
\* first match wins: an embedded platform reference, then the JSON field pair
\* (only when both fields are present), then the first literal manifest URL,
\* then the player-configuration value; a page with a platform reference and a
\* literal manifest URL yields the platform video id.
C24_TextRuleOrder ==
    (spc = "returned" /\ TextPage) =>
        IF page.yt_text \/ page.yt_iframe
           THEN /\ sdesc.kind = "youtube"
                /\ sdesc.by = (IF page.yt_text THEN "yt_text" ELSE "yt_iframe")
        ELSE IF page.domain # NoField /\ page.path # NoField
           THEN sdesc.kind = "m3u8" /\ sdesc.by = "fields"
        ELSE IF page.literal
           THEN sdesc.kind = "m3u8" /\ sdesc.by = "literal"
        ELSE IF page.player
           THEN sdesc.kind = "m3u8" /\ sdesc.by = "player"
        ELSE sdesc.by \in {"browser", "nothing"} /\ Len(scalls) = 1

\* one JSON field alone: the page falls through to its player-configuration value
C24_Witness ==
    /\ spc = "returned"
    /\ TextPage
    /\ ~page.yt_text
    /\ ~page.yt_iframe
    /\ page.domain # NoField
    /\ page.path = NoField
    /\ ~page.literal
    /\ page.player
    /\ sdesc = Desc("m3u8", "player")

\* C27: during one extract_hls_url call the browser is launched at most once,
\* whatever the page contains and whatever the browser returns.
C27_BrowserAtMostOnce == Len(scalls) <= 1

(***************************************************************************)
(* Claims about the history store                                          *)
(***************************************************************************)
\* seconds between two datetimes
SecondsApart(t1, t2) == IF t1.sec >= t2.sec THEN t1.sec - t2.sec ELSE t2.sec - t1.sec

\* the rows of the store, in the table and in the collection
StoredRows == {rsql[k] : k \in 1..Len(rsql)} \cup {e.row : e \in rvec}

\* no add_record call is between its two writes
StoreAtRest == rpc \notin {"add_vector", "add_sql"}

\* C28: for a comparison query, among the stored records of the city inside
\* the time window, the historical context answer_question_with_rag uses is
\* the one whose timestamp is closest to the target time.
C28_ClosestRecordUsed ==
    (rpc = "answer" /\ "lookup" \in {rsteps[i] : i \in 1..Len(rsteps)})
        => \A k \in InWindow(rcity, TargetTime(rtype, rtime)) :
              /\ rhist # NoRow
              /\ SecondsApart(rhist.ts, TargetTime(rtype, rtime))
                    <= SecondsApart(rsql[k].ts, TargetTime(rtype, rtime))

\* C29: every record of the history store has a camera URL, an image path
\* and a non-empty analysis text; a call writes to the store only after a
\* candidate yielded an image and the vision analysis returned text, it
\* writes before it looks the history up, and with RAG disabled no call
\* writes a record.
C29_RecordsComplete ==
    /\ \A r \in StoredRows :
          r.camera_url # "" /\ r.image_path \notin {"None", ""}
              /\ r.analysis \notin {"None", ""}
    /\ rsteps \in {<<>>, <<"add">>, <<"add", "lookup">>}
    /\ rsteps # <<>> => (rimage = "file" /\ ranalysis = "text")
    /\ ~rag_on => (rsteps = <<>> /\ rids = <<>> /\ \A r \in StoredRows : r.ts.sub = 0)

\* a call with RAG enabled has stored its record and then looked the history up
C29_Witness ==
    /\ rag_on
    /\ rsteps = <<"add", "lookup">>
    /\ rsql # <<>>
    /\ rsql[Len(rsql)] = CurrentRow

\* C30: whenever no add_record call is between its two writes, the vector
\* collection and the SQL table hold the same records, one entry in each per
\* add_record call that returned a record id (next to what the store held at
\* the start), and the returned record ids are pairwise distinct.
C30_StoresAgree ==
    StoreAtRest =>
        /\ {e.row : e \in rvec} = {rsql[k] : k \in 1..Len(rsql)}
        /\ Cardinality(rvec) = Len(rsql)
        /\ Len(rids) = Cardinality({k \in 1..Len(rsql) : rsql[k].ts.sub > 0})
        /\ \A i, j \in 1..Len(rids) : i # j => rids[i] # rids[j]

====
